---- MODULE Spec2Model ----
(***************************************************************************)
(* ContractMonitor (src/monitors/ContractMonitor.js): four check methods   *)
(* that diff the event lists of an event client against a per-category     *)
(* "last seen block number" and log one alert per new event.               *)
(*                                                                         *)
(* The event client, the contract, the price feed and the logger are       *)
(* collaborators: what they return (or that they throw) is drawn with \E   *)
(* in the action that makes the call.                                      *)
(***************************************************************************)
EXTENDS Integers, Sequences, FiniteSets

\* ------------------------------------------------------------------ bounds
\* Longest list an event getter returns.
MaxLen == 2
\* Number of check-method invocations in one behaviour.
MaxCalls == 2

\* The fixed-point unit toWei("1"): 10^18 in the source, scaled down so that the
\* products of calculatePositionCRPercent fit TLC's integers.
Unit == 10

\* ---------------------------------------------------------------- universe
\* The four event categories, one per check method.
Cats == {"NewSponsor", "Liquidation", "Dispute", "DisputeSettlement"}

\* The events a getter can return: an identity (the transactionHash) and the
\* blockNumber. Events 3 and 4 are mined in the same block.
Events ==
  { [id |-> 1, blockNumber |-> 10], [id |-> 2, blockNumber |-> 15],
    [id |-> 3, blockNumber |-> 20], [id |-> 4, blockNumber |-> 20] }

EventIds == {e.id : e \in Events}

\* Every list of distinct events of length at most MaxLen, in any order.
EventLists ==
  { s \in UNION {[1..n -> Events] : n \in 0..MaxLen} :
      \A i, j \in DOMAIN s : i # j => s[i].id # s[j].id }

\* What priceFeed.getHistoricalPrice returns: << >> for no price, <<p>> for p.
NoPrice == << >>

Prices == {NoPrice, <<Unit>>}

\* What collateralRequirement().call() returns (1.2 is 12 * Unit \div 10).
CollateralRequirements == {0, (12 * Unit) \div 10}

\* The amount fields of a liquidation event.
LiquidationAmounts ==
  [liquidatedCollateral : {12 * Unit}, tokensOutstanding : {0, 10 * Unit}]

\* ----------------------------------------------------------------- helpers
Ids(s) == {s[i].id : i \in DOMAIN s}

Blocks(s) == {s[i].blockNumber : i \in DOMAIN s}

MaxOf(S) == IF S = {} THEN 0 ELSE CHOOSE m \in S : \A x \in S : x <= m

IsSorted(s) == \A i, j \in DOMAIN s : i < j => s[i].blockNumber <= s[j].blockNumber

IsPrefix(s, t) == Len(s) <= Len(t) /\ \A i \in DOMAIN s : s[i] = t[i]

\* ------------------------------------------------------------------- state
VARIABLES
  lastLiquidationBlockNumber,        \* this.lastLiquidationBlockNumber
  lastDisputeBlockNumber,            \* this.lastDisputeBlockNumber
  lastDisputeSettlementBlockNumber,  \* this.lastDisputeSettlementBlockNumber
  lastNewSponsorBlockNumber,         \* this.lastNewSponsorBlockNumber
  frame,    \* the suspended invocations of checkForNewLiquidations
  logger,   \* the records handed to this.logger by the invocations in "pass"
  pass,     \* history: the most recent invocation
  hist,     \* history: per category, what was fetched and alerted so far
  calls,    \* history: number of invocations started
  calc,     \* a call of a fixed-point helper: its arguments and what it returned
  twin,     \* two monitors constructed with different monitored addresses
  overlap   \* invocations of checkForNewLiquidations the caller does not await

vars ==
  << lastLiquidationBlockNumber, lastDisputeBlockNumber,
     lastDisputeSettlementBlockNumber, lastNewSponsorBlockNumber,
     frame, logger, pass, hist, calls, calc, twin, overlap >>

\* The variables the check methods of the one monitor leave alone.
apart == << calc, twin, overlap >>

\* The watermark field of a category.
Watermark(c) ==
  CASE c = "NewSponsor" -> lastNewSponsorBlockNumber
    [] c = "Liquidation" -> lastLiquidationBlockNumber
    [] c = "Dispute" -> lastDisputeBlockNumber
    [] c = "DisputeSettlement" -> lastDisputeSettlementBlockNumber

Watermarks == [c \in Cats |-> Watermark(c)]

\* Mutant: the dispute-settlement pass assigns the dispute watermark as well.
SetWatermarkShared(c, v) ==
  /\ lastNewSponsorBlockNumber' =
       IF c = "NewSponsor" THEN v ELSE lastNewSponsorBlockNumber
  /\ lastLiquidationBlockNumber' =
       IF c = "Liquidation" THEN v ELSE lastLiquidationBlockNumber
  /\ lastDisputeBlockNumber' =
       IF c \in {"Dispute", "DisputeSettlement"} THEN v ELSE lastDisputeBlockNumber
  /\ lastDisputeSettlementBlockNumber' =
       IF c = "DisputeSettlement" THEN v ELSE lastDisputeSettlementBlockNumber

\* Mutant: the field is only ever raised.
SetWatermarkRaising(c, v) ==
  /\ lastNewSponsorBlockNumber' =
       IF c = "NewSponsor" /\ v > lastNewSponsorBlockNumber
         THEN v ELSE lastNewSponsorBlockNumber
  /\ lastLiquidationBlockNumber' =
       IF c = "Liquidation" /\ v > lastLiquidationBlockNumber
         THEN v ELSE lastLiquidationBlockNumber
  /\ lastDisputeBlockNumber' =
       IF c = "Dispute" /\ v > lastDisputeBlockNumber
         THEN v ELSE lastDisputeBlockNumber
  /\ lastDisputeSettlementBlockNumber' =
       IF c = "DisputeSettlement" /\ v > lastDisputeSettlementBlockNumber
         THEN v ELSE lastDisputeSettlementBlockNumber

\* Assignment of v to the watermark field of category c; the other three fields
\* are not assigned.
SetWatermark(c, v) ==
  /\ lastNewSponsorBlockNumber' =
       IF c = "NewSponsor" THEN v ELSE lastNewSponsorBlockNumber
  /\ lastLiquidationBlockNumber' =
       IF c = "Liquidation" THEN v ELSE lastLiquidationBlockNumber
  /\ lastDisputeBlockNumber' =
       IF c = "Dispute" THEN v ELSE lastDisputeBlockNumber
  /\ lastDisputeSettlementBlockNumber' =
       IF c = "DisputeSettlement" THEN v ELSE lastDisputeSettlementBlockNumber

KeepWatermarks ==
  UNCHANGED << lastLiquidationBlockNumber, lastDisputeBlockNumber,
               lastDisputeSettlementBlockNumber, lastNewSponsorBlockNumber >>

\* Mutant: the largest block number of the list instead of the last element's.
getLastSeenBlockNumberMax(eventArray) == MaxOf(Blocks(eventArray))

\* Mutant: the block number of the first element instead of the last.
getLastSeenBlockNumberFirst(eventArray) ==
  IF Len(eventArray) = 0 THEN 0 ELSE eventArray[1].blockNumber

\* getLastSeenBlockNumber(eventArray)
getLastSeenBlockNumber(eventArray) ==
  IF Len(eventArray) = 0 THEN 0 ELSE eventArray[Len(eventArray)].blockNumber

\* Mutant: >= in place of >.
newEventsInclusive(latest, lastSeen) ==
  SelectSeq(latest, LAMBDA event : event.blockNumber >= lastSeen)

\* latest.filter(event => event.blockNumber > lastSeen): order is kept.
newEvents(latest, lastSeen) ==
  SelectSeq(latest, LAMBDA event : event.blockNumber > lastSeen)

\* ------------------------------------------------------------ log records
\* this.logger.debug({ ..., lastXBlockNumber }) at the head of a check method.
DebugRecord(c, lastSeen) == [level |-> "debug", cat |-> c, lastSeen |-> lastSeen]

\* this.logger.info({ message: "... Alert", mrkdwn }) of the three methods that
\* render the event alone.
InfoRecord(c, event) == [level |-> "info", cat |-> c, ev |-> event.id]

\* The info records of a log, in order.
Infos(log) == SelectSeq(log, LAMBDA r : r.level = "info")

Warns(log) == SelectSeq(log, LAMBDA r : r.level = "warn")

\* ----------------------------------------------------------------- history
Bump(n) == IF n < 2 THEN n + 1 ELSE 2

\* hist after the getter of category c returned latest.
Fetched(h, c, latest) ==
  [h EXCEPT ![c] =
     [ latest |-> latest,
       count |-> @.count,
       aborts |-> @.aborts,
       maxSeen |-> MaxOf({@.maxSeen} \cup Blocks(latest)),
       sorted |-> @.sorted /\ IsSorted(latest),
       appendOnly |-> @.appendOnly /\ IsSorted(latest) /\ IsPrefix(@.latest, latest) ]]

\* hist after info alerts for the events with the identities in ids were logged.
Alerted(h, c, ids) ==
  [h EXCEPT ![c].count = [i \in EventIds |-> IF i \in ids THEN Bump(@[i]) ELSE @[i]]]

\* hist after a pass of category c ended with an exception.
Aborted(h, c, cause) == [h EXCEPT ![c].aborts = @ \cup {cause}]

\* pass: the category, the four watermarks when the pass began, whether the
\* getter returned and what, what it had returned the time before, how the pass
\* ended ("running" until then) and, for a liquidation pass, the iteration it
\* is in and the events the price feed had no price for.
NoPass ==
  [ cat |-> "none", before |-> [c \in Cats |-> 0], fetched |-> FALSE,
    latest |-> << >>, prevLatest |-> << >>, outcome |-> "none", cause |-> "none",
    i |-> 0, noPrice |-> {} ]

\* The invocation record of a pass of category c that has just started.
Started(c) ==
  [ cat |-> c, before |-> Watermarks, fetched |-> FALSE, latest |-> << >>,
    prevLatest |-> hist[c].latest, outcome |-> "running", cause |-> "none",
    i |-> 0, noPrice |-> {} ]

\* No fixed-point helper has been called on its own.
NoCalc ==
  [ fn |-> "none", collateral |-> 0, tokensOutstanding |-> 0, price |-> 0,
    crRequirement |-> 0, result |-> << >> ]

\* The monitor as the constructor leaves it, nothing invoked yet.
Constructed ==
  /\ lastLiquidationBlockNumber = 0
  /\ lastDisputeBlockNumber = 0
  /\ lastDisputeSettlementBlockNumber = 0
  /\ lastNewSponsorBlockNumber = 0
  /\ frame = [pc |-> "idle", latest |-> << >>, new |-> << >>, i |-> 0, price |-> << >>]
  /\ logger = << >>
  /\ pass = NoPass
  /\ hist = [c \in Cats |->
               [ latest |-> << >>, count |-> [i \in EventIds |-> 0],
                 aborts |-> {}, maxSeen |-> 0, sorted |-> TRUE,
                 appendOnly |-> TRUE ]]
  /\ calls = 0

\* No pair of monitors is run side by side.
NoTwin ==
  [ monitors |-> [m \in 1..2 |->
      [ config |-> [monitoredLiquidators |-> {}, monitoredDisputers |-> {}],
        watermarks |-> [c \in Cats |-> 0], logger |-> << >> ]],
    calls |-> 0 ]

\* The invocation slots of a caller that overlaps checkForNewLiquidations.
Slots == {1, 2}

\* No invocation of checkForNewLiquidations has been started without awaiting
\* the one before.
NoOverlap ==
  [ inv |-> [k \in Slots |->
      [pc |-> "idle", latest |-> << >>, new |-> << >>, i |-> 0, lastSeen |-> 0]],
    highest |-> 0 ]

Init == Constructed /\ calc = NoCalc /\ twin = NoTwin /\ overlap = NoOverlap

\* No invocation is suspended: the caller awaits each check method before it
\* invokes the next.
Idle == frame.pc = "idle"

\* --------------------------------------------- the three synchronous passes
\* checkForNewSponsors, checkForNewDisputeEvents and
\* checkForNewDisputeSettlementEvents have the same body and no await: debug,
\* fetch, filter, one info per new event, assignment of the watermark.
\*   fetchOk, latest  what the event client's getter does: returns latest or throws
\*   throwsAt         the logger call of this invocation that throws (0: none);
\*                    call 1 is the debug, call 1+i the info of the i-th new event
CheckPass(c, fetchOk, latest, throwsAt) ==
  LET lastSeen == Watermark(c)
      new == newEvents(latest, lastSeen)
      infos == [i \in 1..Len(new) |-> InfoRecord(c, new[i])]
      logged == IF throwsAt = 0 THEN Len(new) ELSE throwsAt - 2
  IN
  /\ calls' = calls + 1
  /\ UNCHANGED << frame, apart >>
  /\ IF throwsAt = 1
       THEN \* the debug call throws before anything is fetched
            /\ logger' = << >>
            /\ pass' = [Started(c) EXCEPT !.outcome = "aborted", !.cause = "emit"]
            /\ hist' = Aborted(hist, c, "emit")
            /\ KeepWatermarks
     ELSE IF ~fetchOk
       THEN \* the getter throws
            /\ logger' = << DebugRecord(c, lastSeen) >>
            /\ pass' = [Started(c) EXCEPT !.outcome = "aborted", !.cause = "fetch"]
            /\ hist' = Aborted(hist, c, "fetch")
            /\ KeepWatermarks
     ELSE /\ throwsAt <= 1 + Len(new)
          /\ logger' = << DebugRecord(c, lastSeen) >> \o SubSeq(infos, 1, logged)
          /\ hist' = LET h == Alerted(Fetched(hist, c, latest), c,
                                       {new[i].id : i \in 1..logged})
                      IN IF throwsAt = 0 THEN h ELSE Aborted(h, c, "emit")
          /\ IF throwsAt = 0
               THEN /\ SetWatermark(c, getLastSeenBlockNumber(latest))
                    /\ pass' = [Started(c) EXCEPT !.fetched = TRUE, !.latest = latest,
                                                  !.outcome = "completed"]
               ELSE \* an info call throws: the loop and the assignment after it
                    \* are not reached
                    /\ KeepWatermarks
                    /\ pass' = [Started(c) EXCEPT !.fetched = TRUE, !.latest = latest,
                                                  !.outcome = "aborted", !.cause = "emit"]

\* What a pass can meet: the getter throws, or returns a list and at most one of
\* the logger calls the pass makes throws.
PassInputs ==
  { <<FALSE, << >>, 0>> } \cup
  { <<TRUE, latest, throwsAt>> : latest \in EventLists, throwsAt \in 0..(MaxLen + 1) }

checkForNewSponsors ==
  /\ Idle /\ calls < MaxCalls
  /\ \E in \in PassInputs : CheckPass("NewSponsor", in[1], in[2], in[3])

checkForNewDisputeEvents ==
  /\ Idle /\ calls < MaxCalls
  /\ \E in \in PassInputs : CheckPass("Dispute", in[1], in[2], in[3])

checkForNewDisputeSettlementEvents ==
  /\ Idle /\ calls < MaxCalls
  /\ \E in \in PassInputs : CheckPass("DisputeSettlement", in[1], in[2], in[3])


\* ------------------------------------------------------- fixed-point helpers
\* BN.div throws on a zero divisor; a thrown call is << >>, a returned n is <<n>>.
Thrown == << >>

\* BN.div of a non-zero divisor: the quotient rounded toward zero.
div(a, b) ==
  LET q == (IF a < 0 THEN -a ELSE a) \div (IF b < 0 THEN -b ELSE b)
  IN IF (a < 0) = (b < 0) THEN q ELSE -q

\* Mutant: the division comes before the two multiplications by the unit.
calculatePositionCRPercentDivideFirst(collateral, tokensOutstanding, tokenPrice) ==
  IF tokensOutstanding * tokenPrice = 0
    THEN Thrown
    ELSE << div(collateral, tokensOutstanding * tokenPrice) * Unit * Unit * 100 >>

\* toBN(collateral).mul(1e18).mul(1e18).div(toBN(tokensOutstanding).mul(toBN(price))).muln(100)
calculatePositionCRPercent(collateral, tokensOutstanding, tokenPrice) ==
  IF tokensOutstanding * tokenPrice = 0
    THEN Thrown
    ELSE << div(collateral * Unit * Unit, tokensOutstanding * tokenPrice) * 100 >>

\* Mutant: a zero divisor yields 0 in place of the exception.
calculateDisputablePriceZeroOnZero(crRequirement, liquidatedCollateral, liquidatedTokens) ==
  IF liquidatedTokens = 0 \/ crRequirement = 0
    THEN << 0 >>
    ELSE << div(div(liquidatedCollateral * Unit, liquidatedTokens) * Unit, crRequirement) >>

\* Mutant: the second division comes before the second multiplication.
calculateDisputablePriceDivideFirst(crRequirement, liquidatedCollateral, liquidatedTokens) ==
  IF liquidatedTokens = 0 \/ crRequirement = 0
    THEN Thrown
    ELSE << div(div(liquidatedCollateral * Unit, liquidatedTokens), crRequirement) * Unit >>

\* toBN(liquidatedCollateral).mul(1e18).div(toBN(liquidatedTokens)).mul(1e18).div(toBN(crRequirement))
calculateDisputablePrice(crRequirement, liquidatedCollateral, liquidatedTokens) ==
  IF liquidatedTokens = 0 \/ crRequirement = 0
    THEN Thrown
    ELSE << div(div(liquidatedCollateral * Unit, liquidatedTokens) * Unit, crRequirement) >>

\* createFormatFunction(this.web3, 2, 4): the rendering of a decimal value. It
\* returns a string for every argument, the missing price included.
formatDecimalString(value) == << "decimal", value >>

\* The literal "[Invalid]".
Invalid == << "[Invalid]" >>

\* Mutant: the two calculations' strings are rendered without a price.
DerivedStringsNoElse(price, cr, disputable) ==
  IF price # NoPrice
    THEN [ collateralization |-> formatDecimalString(cr[1]),
           maxPriceToBeDisputable |-> formatDecimalString(disputable[1]) ]
    ELSE [ collateralization |-> formatDecimalString(0),
           maxPriceToBeDisputable |-> formatDecimalString(0) ]

\* The if (price) / else of the loop body: collateralizationString and
\* maxPriceToBeDisputableString from the two calculations, or "[Invalid]" twice.
DerivedStrings(price, cr, disputable) ==
  IF price # NoPrice
    THEN [ collateralization |-> formatDecimalString(cr[1]),
           maxPriceToBeDisputable |-> formatDecimalString(disputable[1]) ]
    ELSE [ collateralization |-> Invalid, maxPriceToBeDisputable |-> Invalid ]

\* this.logger.warn({ message: "Could not get historical price for liquidation" })
WarnRecord(event) == [level |-> "warn", cat |-> "Liquidation", ev |-> event.id]

\* this.logger.info({ message: "Liquidation Alert", mrkdwn }): the parts of the
\* markdown that depend on the reads.
LiquidationRecord(event, strings, price, crRequirementString) ==
  [ level |-> "info", cat |-> "Liquidation", ev |-> event.id,
    collateralization |-> strings.collateralization,
    maxPriceToBeDisputable |-> strings.maxPriceToBeDisputable,
    price |-> formatDecimalString(price),
    crRequirement |-> formatDecimalString(crRequirementString) ]

\* -------------------------------------------------- checkForNewLiquidations
IdleFrame == [pc |-> "idle", latest |-> << >>, new |-> << >>, i |-> 0, price |-> NoPrice]

\* Mutant: the watermark is assigned on the way out, as in a finally block.
AbortAdvancing(cause) ==
  /\ frame' = IdleFrame
  /\ pass' = [pass EXCEPT !.outcome = "aborted", !.cause = cause]
  /\ hist' = Aborted(hist, "Liquidation", cause)
  /\ SetWatermark("Liquidation", getLastSeenBlockNumber(frame.latest))

\* The invocation ends with an exception: nothing after the throwing statement
\* runs, the watermark assignment included.
Abort(cause) ==
  /\ frame' = IdleFrame
  /\ pass' = [pass EXCEPT !.outcome = "aborted", !.cause = cause]
  /\ hist' = Aborted(hist, "Liquidation", cause)
  /\ KeepWatermarks

\* The call: debug, fetch, filter and, when there is a new event, the first
\* contract read, at which the invocation is suspended.
checkForNewLiquidations ==
  /\ Idle /\ calls < MaxCalls
  /\ calls' = calls + 1
  /\ UNCHANGED apart
  /\ \E debugThrows \in BOOLEAN, fetchOk \in BOOLEAN, latest \in EventLists :
       LET lastSeen == lastLiquidationBlockNumber
           new == newEvents(latest, lastSeen)
       IN
       IF debugThrows
         THEN /\ ~fetchOk /\ latest = << >>
              /\ logger' = << >>
              /\ pass' = [Started("Liquidation") EXCEPT !.outcome = "aborted",
                                                        !.cause = "emit"]
              /\ hist' = Aborted(hist, "Liquidation", "emit")
              /\ UNCHANGED frame
              /\ KeepWatermarks
       ELSE IF ~fetchOk
         THEN /\ latest = << >>
              /\ logger' = << DebugRecord("Liquidation", lastSeen) >>
              /\ pass' = [Started("Liquidation") EXCEPT !.outcome = "aborted",
                                                        !.cause = "fetch"]
              /\ hist' = Aborted(hist, "Liquidation", "fetch")
              /\ UNCHANGED frame
              /\ KeepWatermarks
       ELSE /\ logger' = << DebugRecord("Liquidation", lastSeen) >>
            /\ hist' = Fetched(hist, "Liquidation", latest)
            /\ IF Len(new) = 0
                 THEN /\ SetWatermark("Liquidation", getLastSeenBlockNumber(latest))
                      /\ pass' = [Started("Liquidation") EXCEPT
                                    !.fetched = TRUE, !.latest = latest,
                                    !.outcome = "completed"]
                      /\ UNCHANGED frame
                 ELSE /\ frame' = [pc |-> "liquidations", latest |-> latest,
                                   new |-> new, i |-> 1, price |-> NoPrice]
                      /\ pass' = [Started("Liquidation") EXCEPT
                                    !.fetched = TRUE, !.latest = latest, !.i = 1]
                      /\ KeepWatermarks

\* await liquidations(event.sponsor, event.liquidationId).call() returns: the
\* price at liquidationTime is looked up and collateralRequirement() is called.
liquidationsReturns ==
  /\ frame.pc = "liquidations"
  /\ \E price \in Prices :
       /\ frame' = [frame EXCEPT !.pc = "collateralRequirement", !.price = price]
       /\ pass' = IF price = NoPrice
                    THEN [pass EXCEPT !.noPrice = @ \cup {frame.new[frame.i].id}]
                    ELSE pass
  /\ KeepWatermarks
  /\ UNCHANGED << logger, hist, calls, apart >>

\* await liquidations(...).call() rejects.
liquidationsFails ==
  /\ frame.pc = "liquidations"
  /\ Abort("read")
  /\ UNCHANGED << logger, calls, apart >>

\* await collateralRequirement().call() rejects.
collateralRequirementFails ==
  /\ frame.pc = "collateralRequirement"
  /\ Abort("read")
  /\ UNCHANGED << logger, calls, apart >>

\* The rest of the loop body for event frame.new[frame.i] once
\* collateralRequirement() has returned crRequirement, then either the next
\* iteration's read or the watermark assignment.
\*   amounts  the event's liquidatedCollateral and tokensOutstanding
\*   throws   the logger call of this iteration that throws, if any
AlertLiquidation(crRequirement, amounts, throws) ==
  LET event == frame.new[frame.i]
      price == frame.price
      crRequirementString == crRequirement * 100
      cr == calculatePositionCRPercent(amounts.liquidatedCollateral,
                                       amounts.tokensOutstanding, price[1])
      disputable == calculateDisputablePrice(crRequirement,
                                             amounts.liquidatedCollateral,
                                             amounts.tokensOutstanding)
      warned == IF price = NoPrice /\ throws # "warn"
                  THEN << WarnRecord(event) >> ELSE << >>
      strings == DerivedStrings(price, cr, disputable)
      info == LiquidationRecord(event, strings, price, crRequirementString)
  IN
  /\ frame.pc = "collateralRequirement"
  /\ UNCHANGED << calls, apart >>
  /\ IF price # NoPrice /\ (cr = Thrown \/ disputable = Thrown)
       THEN \* BN.div throws inside one of the two calculations
            /\ throws = "none"
            /\ Abort("arith")
            /\ UNCHANGED logger
     ELSE IF throws = "warn"
       THEN /\ price = NoPrice
            /\ Abort("emit")
            /\ UNCHANGED logger
     ELSE IF throws = "info"
       THEN /\ Abort("emit")
            /\ logger' = logger \o warned
     ELSE /\ logger' = (logger \o warned) \o << info >>
          /\ hist' = Alerted(hist, "Liquidation", {event.id})
          /\ IF frame.i < Len(frame.new)
               THEN /\ frame' = [frame EXCEPT !.pc = "liquidations", !.i = @ + 1,
                                              !.price = NoPrice]
                    /\ KeepWatermarks
                    /\ pass' = [pass EXCEPT !.i = @ + 1]
               ELSE /\ frame' = IdleFrame
                    /\ SetWatermark("Liquidation", getLastSeenBlockNumber(frame.latest))
                    /\ pass' = [pass EXCEPT !.outcome = "completed"]

collateralRequirementReturns ==
  \E crRequirement \in CollateralRequirements, amounts \in LiquidationAmounts,
     throws \in {"none", "warn", "info"} :
    AlertLiquidation(crRequirement, amounts, throws)

Next ==
  \/ checkForNewSponsors
  \/ checkForNewDisputeEvents
  \/ checkForNewDisputeSettlementEvents
  \/ checkForNewLiquidations
  \/ liquidationsReturns
  \/ liquidationsFails
  \/ collateralRequirementReturns
  \/ collateralRequirementFails

Spec == Init /\ [][Next]_vars

\* ------------------------------------------- the fixed-point helpers alone
\* The two helpers are public fields of the monitor; CalcSpec calls each once
\* on arguments drawn from the sets below (amounts in units of wei).
CalcCollaterals == {-7, 0, 7, 12 * Unit, 1200 * Unit, 2000 * Unit}

CalcTokens == {0, 3, 10 * Unit, 1000 * Unit}

CalcPrices == {0, Unit, (15 * Unit) \div 10}

CalcRequirements == {0, (12 * Unit) \div 10, 2 * Unit}

CalcInit ==
  /\ Constructed
  /\ twin = NoTwin
  /\ overlap = NoOverlap
  /\ calc \in [ fn : {"none"}, collateral : CalcCollaterals,
                 tokensOutstanding : CalcTokens, price : CalcPrices,
                 crRequirement : CalcRequirements, result : {<< >>} ]

\* monitor.calculatePositionCRPercent(collateral, tokensOutstanding, price)
CallCalculatePositionCRPercent ==
  /\ calc.fn = "none"
  /\ calc' = [calc EXCEPT
                !.fn = "calculatePositionCRPercent",
                !.result = calculatePositionCRPercent(calc.collateral,
                                                      calc.tokensOutstanding,
                                                      calc.price)]
  /\ KeepWatermarks
  /\ UNCHANGED << frame, logger, pass, hist, calls, twin, overlap >>

\* monitor.calculateDisputablePrice(crRequirement, collateral, tokensOutstanding)
CallCalculateDisputablePrice ==
  /\ calc.fn = "none"
  /\ calc' = [calc EXCEPT
                !.fn = "calculateDisputablePrice",
                !.result = calculateDisputablePrice(calc.crRequirement,
                                                    calc.collateral,
                                                    calc.tokensOutstanding)]
  /\ KeepWatermarks
  /\ UNCHANGED << frame, logger, pass, hist, calls, twin, overlap >>

CalcNext == CallCalculatePositionCRPercent \/ CallCalculateDisputablePrice

CalcSpec == CalcInit /\ [][CalcNext]_vars

\* ------------------------------------------------ two monitors side by side
\* The monitored addresses only annotate the alert text. TwinSpec constructs
\* two monitors with monitored sets drawn independently and invokes the same
\* check method on both, the getter returning the same list to both.
Addresses == {"0xA", "0xB"}

\* event.sponsor, event.liquidator and event.disputer of the four events.
sponsor(event) == IF event.id \in {1, 3} THEN "0xA" ELSE "0xB"

liquidator(event) == IF event.id \in {1, 2} THEN "0xA" ELSE "0xB"

disputer(event) == IF event.id \in {1, 4} THEN "0xB" ELSE "0xA"

\* contractMonitorConfigObject: monitoredLiquidators and monitoredDisputers.
MonitoredSets ==
  [ monitoredLiquidators : {{}, {"0xA"}}, monitoredDisputers : {{}, Addresses} ]

\* The indexOf(...) != -1 tests of a check method's markdown, in text order.
Annotations(c, event, config) ==
  CASE c = "NewSponsor" ->
         << sponsor(event) \in config.monitoredLiquidators
              \/ sponsor(event) \in config.monitoredDisputers >>
    [] c = "Liquidation" ->
         << liquidator(event) \in config.monitoredLiquidators >>
    [] c = "Dispute" ->
         << disputer(event) \in config.monitoredDisputers,
            liquidator(event) \in config.monitoredLiquidators >>
    [] c = "DisputeSettlement" ->
         << liquidator(event) \in config.monitoredLiquidators,
            disputer(event) \in config.monitoredDisputers >>

\* this.logger.info({ message: "... Alert", mrkdwn }) with the annotations of
\* the markdown.
AnnotatedRecord(c, event, config) ==
  [ level |-> "info", cat |-> c, ev |-> event.id,
    monitored |-> Annotations(c, event, config) ]

\* Mutant: no alert for an event of a monitored address.
AlertLoopUnmonitored(c, new, config) ==
  LET quiet == SelectSeq(new, LAMBDA event :
                 \A k \in DOMAIN Annotations(c, event, config) :
                   ~Annotations(c, event, config)[k])
  IN [i \in 1..Len(quiet) |-> AnnotatedRecord(c, quiet[i], config)]

\* for (let event of newEvents) { ... this.logger.info(...) }
AlertLoop(c, new, config) ==
  [i \in 1..Len(new) |-> AnnotatedRecord(c, new[i], config)]

\* A pass of category c by monitor m whose getter returns latest and in which
\* nothing throws (for a liquidation event the reads return).
TwinPass(m, c, latest) ==
  LET monitor == twin.monitors[m]
      lastSeen == monitor.watermarks[c]
      new == newEvents(latest, lastSeen)
  IN [ config |-> monitor.config,
       watermarks |-> [monitor.watermarks EXCEPT ![c] = getLastSeenBlockNumber(latest)],
       logger |-> << DebugRecord(c, lastSeen) >> \o AlertLoop(c, new, monitor.config) ]

TwinInit ==
  /\ Constructed
  /\ calc = NoCalc
  /\ overlap = NoOverlap
  /\ \E config \in [1..2 -> MonitoredSets] :
       twin = [NoTwin EXCEPT !.monitors[1].config = config[1],
                             !.monitors[2].config = config[2]]

\* Both monitors run the check method of category c on the list latest.
TwinCheck(c, latest) ==
  /\ twin' = [ monitors |-> [m \in 1..2 |-> TwinPass(m, c, latest)],
               calls |-> twin.calls + 1 ]
  /\ KeepWatermarks
  /\ UNCHANGED << frame, logger, pass, hist, calls, calc, overlap >>

TwinCheckForNewSponsors ==
  /\ twin.calls < MaxCalls
  /\ \E latest \in EventLists : TwinCheck("NewSponsor", latest)

TwinCheckForNewLiquidations ==
  /\ twin.calls < MaxCalls
  /\ \E latest \in EventLists : TwinCheck("Liquidation", latest)

TwinCheckForNewDisputeEvents ==
  /\ twin.calls < MaxCalls
  /\ \E latest \in EventLists : TwinCheck("Dispute", latest)

TwinCheckForNewDisputeSettlementEvents ==
  /\ twin.calls < MaxCalls
  /\ \E latest \in EventLists : TwinCheck("DisputeSettlement", latest)

TwinNext ==
  \/ TwinCheckForNewSponsors
  \/ TwinCheckForNewLiquidations
  \/ TwinCheckForNewDisputeEvents
  \/ TwinCheckForNewDisputeSettlementEvents

TwinSpec == TwinInit /\ [][TwinNext]_vars

\* ------------------------------------ checkForNewLiquidations, overlapped
\* A caller that does not await checkForNewLiquidations can invoke it, or
\* another check method, while an earlier invocation is suspended at a
\* contract read. ConcSpec interleaves up to two such invocations, whose reads
\* return, with the three methods that have no await.
\*
\* Slot k is free.
Free(k) == overlap.inv[k].pc = "idle"

\* Lines 129-141 in slot k, and line 208 at once when no event is new.
StartOverlapped(k, latest) ==
  LET lastSeen == lastLiquidationBlockNumber
      new == newEvents(latest, lastSeen)
  IN
  /\ calls' = calls + 1
  /\ hist' = Fetched(hist, "Liquidation", latest)
  /\ pass' = [Started("Liquidation") EXCEPT
                !.fetched = TRUE, !.latest = latest,
                !.outcome = IF Len(new) = 0 THEN "completed" ELSE "running"]
  /\ IF Len(new) = 0
       THEN /\ SetWatermark("Liquidation", getLastSeenBlockNumber(latest))
            /\ overlap' = [overlap EXCEPT
                  !.highest = MaxOf({@, getLastSeenBlockNumber(latest)})]
       ELSE /\ KeepWatermarks
            /\ overlap' = [overlap EXCEPT
                  !.inv[k] = [pc |-> "liquidations", latest |-> latest,
                              new |-> new, i |-> 1, lastSeen |-> lastSeen]]
  /\ UNCHANGED << frame, logger, calc, twin >>

\* checkForNewLiquidations() while another invocation may be suspended.
overlappedCheckForNewLiquidations ==
  /\ calls < MaxCalls
  /\ \E k \in Slots :
       /\ Free(k)
       /\ \A j \in Slots : j < k => ~Free(j)
       /\ \E latest \in EventLists : StartOverlapped(k, latest)

\* await liquidations(...).call() of the invocation in a slot returns.
overlappedLiquidationsReturns ==
  \E k \in Slots :
    /\ overlap.inv[k].pc = "liquidations"
    /\ overlap' = [overlap EXCEPT !.inv[k].pc = "collateralRequirement"]
    /\ KeepWatermarks
    /\ UNCHANGED << frame, logger, pass, hist, calls, calc, twin >>

\* await collateralRequirement().call() of the invocation in slot k returns:
\* the info alert of lines 202-206, then the next iteration's read or line 208.
AlertOverlapped(k) ==
  LET inv == overlap.inv[k]
      tail == getLastSeenBlockNumber(inv.latest)
  IN
  /\ inv.pc = "collateralRequirement"
  /\ hist' = Alerted(hist, "Liquidation", {inv.new[inv.i].id})
  /\ IF inv.i < Len(inv.new)
       THEN /\ overlap' = [overlap EXCEPT !.inv[k].pc = "liquidations",
                                          !.inv[k].i = @ + 1]
            /\ KeepWatermarks
       ELSE /\ overlap' = [overlap EXCEPT !.inv[k].pc = "idle",
                                          !.highest = MaxOf({@, tail})]
            /\ SetWatermark("Liquidation", tail)
  /\ UNCHANGED << frame, logger, pass, calls, calc, twin >>

overlappedCollateralRequirementReturns == \E k \in Slots : AlertOverlapped(k)

ConcNext ==
  \/ checkForNewSponsors
  \/ checkForNewDisputeEvents
  \/ checkForNewDisputeSettlementEvents
  \/ overlappedCheckForNewLiquidations
  \/ overlappedLiquidationsReturns
  \/ overlappedCollateralRequirementReturns

ConcSpec == Init /\ [][ConcNext]_vars

\* ===================================================================== claims
\* The identities of the events alerted (info) by the pass in "pass", in order.
AlertedIds == [k \in 1..Len(Infos(logger)) |-> Infos(logger)[k].ev]

\* The fetched list of the pass's category has only ever grown at its end, in
\* non-decreasing block order.
AppendOnly(c) == hist[c].appendOnly

\* C1: no duplicate alerts. For every category whose fetch results are
\* non-decreasing in block number (here even append-only) and whose logger
\* calls and fixed-point calculations never threw, no event is alerted in two
\* invocations of the category's check method.
C1_NoDuplicateAlerts ==
  \A c \in Cats :
    (AppendOnly(c) /\ hist[c].aborts \cap {"emit", "arith"} = {})
      => \A i \in EventIds : hist[c].count[i] <= 1

\* C2: no missed alerts. With an append-only history in non-decreasing block
\* order, a completed pass has alerted every event of its fetched list that
\* was not in the list fetched before, one with the block number of the
\* previous tail included.
C2_NoMissedAlerts ==
  (pass.outcome = "completed" /\ AppendOnly(pass.cat))
    => \A e \in Ids(pass.latest) \ Ids(pass.prevLatest) :
         \E k \in DOMAIN AlertedIds : AlertedIds[k] = e

\* Every fetch result of the category was in non-decreasing block order.
Sorted(c) == hist[c].sorted

\* C3 as claimed: after a completed pass the category's watermark is the
\* largest block number any of its fetch results has held, and no pass lowers
\* it, also when a later fetch returns a shorter or an empty list.
C3_WatermarkMonotoneAnyFetch ==
  (pass.cat \in Cats /\ Sorted(pass.cat)) =>
    /\ Watermark(pass.cat) >= pass.before[pass.cat]
    /\ pass.outcome = "completed" => Watermark(pass.cat) = hist[pass.cat].maxSeen

\* C3 as amended: the same, for a category whose fetch results are append-only
\* in non-decreasing block order.
C3_WatermarkMonotoneAppendOnly ==
  (pass.cat \in Cats /\ AppendOnly(pass.cat)) =>
    /\ Watermark(pass.cat) >= pass.before[pass.cat]
    /\ pass.outcome = "completed" => Watermark(pass.cat) = hist[pass.cat].maxSeen

\* A second completed pass over a grown history has raised a non-zero watermark.
C3_Witness ==
  /\ pass.cat \in Cats
  /\ AppendOnly(pass.cat)
  /\ pass.outcome = "completed"
  /\ pass.before[pass.cat] > 0
  /\ Watermark(pass.cat) > pass.before[pass.cat]

\* The positions of list L whose event has a block number above w.
Above(L, w) == {i \in DOMAIN L : L[i].blockNumber > w}

\* The k-th smallest element of a set of positions.
Nth(P, k) == CHOOSE i \in P : Cardinality({j \in P : j < i}) = k - 1

\* C4: a completed pass that began at watermark w and fetched L has logged
\* exactly one info alert per element of L with blockNumber > w, in the order
\* of L, none for an element with blockNumber <= w, and has left the
\* watermark at the block number of the last element of L.
C4_AlertsAreTheNewEventsInOrder ==
  (pass.cat \in Cats /\ pass.outcome = "completed") =>
    LET L == pass.latest
        P == Above(L, pass.before[pass.cat])
    IN /\ Len(AlertedIds) = Cardinality(P)
       /\ \A k \in 1..Cardinality(P) : AlertedIds[k] = L[Nth(P, k)].id
       /\ L # << >> => Watermark(pass.cat) = L[Len(L)].blockNumber

\* The second half of the example: at watermark 10 the list [10, 15] alerts
\* the block-15 event alone and leaves the watermark at 15.
C4_Witness ==
  /\ pass.cat \in Cats
  /\ pass.outcome = "completed"
  /\ pass.before[pass.cat] = 10
  /\ Len(pass.latest) = 2
  /\ pass.latest[1].blockNumber = 10
  /\ pass.latest[2].blockNumber = 15
  /\ AlertedIds = << pass.latest[2].id >>
  /\ Watermark(pass.cat) = 15

C6_WatermarkIsMaxOfList ==
  (pass.cat \in Cats /\ pass.outcome = "completed" /\ pass.latest # << >>) =>
    Watermark(pass.cat) = MaxOf(Blocks(pass.latest))

\* C6 as amended: it is the block number of the last element, which is the
\* largest of the list when the list is in non-decreasing block order.
C6_WatermarkIsTailOfList ==
  (pass.cat \in Cats /\ pass.outcome = "completed" /\ pass.latest # << >>) =>
    /\ Watermark(pass.cat) = pass.latest[Len(pass.latest)].blockNumber
    /\ IsSorted(pass.latest) => Watermark(pass.cat) = MaxOf(Blocks(pass.latest))

\* A completed pass over a list whose last element is not its newest.
C6_Witness ==
  /\ pass.cat \in Cats
  /\ pass.outcome = "completed"
  /\ pass.latest # << >>
  /\ ~IsSorted(pass.latest)
  /\ Watermark(pass.cat) < MaxOf(Blocks(pass.latest))

\* C7: at most once under partial failure. When the only passes of
\* checkForNewLiquidations that aborted did so on a failed contract read, and
\* the history is append-only, no liquidation event has been alerted more than
\* once across the aborted passes and their retries.
C7_AtMostOnceAcrossRetry ==
  (AppendOnly("Liquidation") /\ hist["Liquidation"].aborts \subseteq {"read"})
    => \A i \in EventIds : hist["Liquidation"].count[i] <= 1

\* C8: a pass that aborts on a failed fetch or contract read leaves all four
\* watermarks as they were when it began, and the next invocation for the
\* category begins at the watermark the aborted one began at.
C8_AbortKeepsWatermarks ==
  /\ [](pass.outcome = "aborted" /\ pass.cause \in {"fetch", "read"}
          => Watermarks = pass.before)
  /\ [][(/\ pass.outcome = "aborted"
         /\ pass.cause \in {"fetch", "read"}
         /\ calls' = calls + 1
         /\ pass'.cat = pass.cat)
          => pass'.before[pass.cat] = pass.before[pass.cat]]_vars

\* A liquidation pass aborted on the reads of its second new event, after
\* alerting the first, while another category's watermark is set.
C8_Witness ==
  /\ pass.cat = "Liquidation"
  /\ pass.outcome = "aborted"
  /\ pass.cause = "read"
  /\ pass.i = 2
  /\ Len(Infos(logger)) = 1
  /\ lastNewSponsorBlockNumber > 0
  /\ Watermarks = pass.before

\* The new events of the liquidation pass in "pass", by position in the list.
PassNew == Above(pass.latest, pass.before["Liquidation"])

C10_EmitFailureNeverBlocks ==
  (pass.cat \in Cats /\ pass.fetched /\ pass.cause = "emit") =>
    /\ pass.outcome # "aborted"
    /\ Watermark(pass.cat) =
         IF pass.latest = << >> THEN 0 ELSE pass.latest[Len(pass.latest)].blockNumber


\* C11: when one of the two fixed-point calculations of a liquidation event
\* divides by zero (tokensOutstanding or the collateral requirement is 0), the
\* pass is not aborted: a warn is logged for the event, its info alert is
\* logged with both derived fields "[Invalid]", and a pass past its last event
\* has set the watermark to the block number of the list's last element.
C11_ZeroDenominatorDegrades ==
  (pass.cat = "Liquidation" /\ pass.cause = "arith") =>
    LET e == pass.latest[Nth(PassNew, pass.i)].id IN
    /\ pass.outcome # "aborted"
    /\ \E n \in DOMAIN logger : logger[n].level = "warn" /\ logger[n].ev = e
    /\ \E n \in DOMAIN logger :
         /\ logger[n].level = "info"
         /\ logger[n].ev = e
         /\ logger[n].collateralization = << "[Invalid]" >>
         /\ logger[n].maxPriceToBeDisputable = << "[Invalid]" >>
    /\ pass.i = Cardinality(PassNew)
         => lastLiquidationBlockNumber = pass.latest[Len(pass.latest)].blockNumber


\* The step is an invocation of the check method whose previous invocation
\* completed, and its getter returns the list that invocation fetched.
Reinvoked ==
  /\ pass.cat \in Cats
  /\ pass.outcome = "completed"
  /\ calls' = calls + 1
  /\ pass'.cat = pass.cat
  /\ pass'.fetched
  /\ pass'.latest = pass.latest

\* The invocation started by the step has completed in it, with no info alert
\* and the four watermarks as they were.
NoOp ==
  /\ pass'.outcome = "completed"
  /\ Infos(logger') = << >>
  /\ Watermarks' = Watermarks

\* C12 as claimed: a check method invoked again with the list of its previous
\* completed invocation logs no info alert and leaves the four watermarks
\* unchanged, for every category and every list, in whatever order.
C12_ReinvocationIsNoOpAnyList == [][Reinvoked => NoOp]_vars

\* C12 as amended: the same, for every list in non-decreasing block order, the
\* empty list included.
C12_ReinvocationIsNoOpSorted ==
  [][(Reinvoked /\ IsSorted(pass.latest)) => NoOp]_vars

\* A second invocation over the same non-empty list as the completed first one
\* has logged no alert and moved no watermark.
C12_Witness ==
  /\ pass.cat \in Cats
  /\ calls = 2
  /\ pass.outcome = "completed"
  /\ hist[pass.cat].aborts = {}
  /\ pass.latest # << >>
  /\ pass.prevLatest = pass.latest
  /\ IsSorted(pass.latest)
  /\ Infos(logger) = << >>
  /\ Watermarks = pass.before


\* C13: for non-negative arguments with tokensOutstanding * price > 0,
\* calculatePositionCRPercent returns 100 * q, where q is the integer with
\* q * (tokensOutstanding * price) <= collateral * S * S
\*                                 < (q + 1) * (tokensOutstanding * price),
\* S being the unit; collateral 2000 S, tokensOutstanding 1000 S and price S
\* give 200 S.
C13_PositionCRPercentIsFloorTimes100 ==
  (/\ calc.fn = "calculatePositionCRPercent"
   /\ calc.collateral >= 0
   /\ calc.tokensOutstanding * calc.price > 0) =>
    LET n == calc.collateral * Unit * Unit
        d == calc.tokensOutstanding * calc.price
    IN /\ calc.result # Thrown
       /\ calc.result[1] % 100 = 0
       /\ (calc.result[1] \div 100) * d <= n
       /\ n < ((calc.result[1] \div 100) + 1) * d
       /\ (/\ calc.collateral = 2000 * Unit
           /\ calc.tokensOutstanding = 1000 * Unit
           /\ calc.price = Unit) => calc.result[1] = 200 * Unit

\* The example: 2000 S of collateral behind 1000 S tokens at price S is 200 S.
C13_Witness ==
  /\ calc.fn = "calculatePositionCRPercent"
  /\ calc.collateral = 2000 * Unit
  /\ calc.tokensOutstanding = 1000 * Unit
  /\ calc.price = Unit
  /\ calc.result = << 200 * Unit >>

\* floor(floor(liquidatedCollateral * S / liquidatedTokens) * S / crRequirement)
DisputablePriceFloor ==
  (((calc.collateral * Unit) \div calc.tokensOutstanding) * Unit) \div calc.crRequirement

\* C14 as claimed: for all integer arguments with liquidatedTokens > 0 and
\* crRequirement > 0, a negative liquidatedCollateral included,
\* calculateDisputablePrice returns the floor of the floor.
C14_DisputablePriceIsFloorAnyInteger ==
  (/\ calc.fn = "calculateDisputablePrice"
   /\ calc.tokensOutstanding > 0
   /\ calc.crRequirement > 0) => calc.result = << DisputablePriceFloor >>

\* C14 as amended: the same for liquidatedCollateral >= 0; crRequirement 1.2 S,
\* liquidatedCollateral 1200 S and liquidatedTokens 1000 S give S.
C14_DisputablePriceIsFloorNonNegative ==
  (/\ calc.fn = "calculateDisputablePrice"
   /\ calc.collateral >= 0
   /\ calc.tokensOutstanding > 0
   /\ calc.crRequirement > 0) =>
    /\ calc.result = << DisputablePriceFloor >>
    /\ (/\ calc.crRequirement = (12 * Unit) \div 10
        /\ calc.collateral = 1200 * Unit
        /\ calc.tokensOutstanding = 1000 * Unit) => calc.result = << Unit >>

\* The example: 1200 S of collateral for 1000 S tokens at requirement 1.2 is S.
C14_Witness ==
  /\ calc.fn = "calculateDisputablePrice"
  /\ calc.crRequirement = (12 * Unit) \div 10
  /\ calc.collateral = 1200 * Unit
  /\ calc.tokensOutstanding = 1000 * Unit
  /\ calc.result = << Unit >>


C16_NoCrossCategoryInterference ==
  /\ [][\A c \in Cats :
          c # pass'.cat => (Watermark(c)' = Watermark(c) /\ hist'[c] = hist[c])]_vars
  /\ [](pass.cat \in Cats =>
          /\ \A c \in Cats \ {pass.cat} : Watermark(c) = pass.before[c]
          /\ \A n \in DOMAIN logger : logger[n].cat = pass.cat
          /\ logger # << >> => logger[1].lastSeen = pass.before[pass.cat])
  /\ [](\A c \in Cats :
          (hist[c].latest = << >> /\ hist[c].maxSeen = 0) => Watermark(c) = 0)

\* A dispute-settlement pass has set its watermark after a dispute pass set a
\* different one, which is as it was.
C16_Witness ==
  /\ pass.cat = "DisputeSettlement"
  /\ pass.outcome = "completed"
  /\ lastDisputeSettlementBlockNumber > 0
  /\ lastDisputeBlockNumber > 0
  /\ lastDisputeBlockNumber # lastDisputeSettlementBlockNumber
  /\ lastDisputeBlockNumber = pass.before["Dispute"]
  /\ lastNewSponsorBlockNumber = 0
  /\ lastLiquidationBlockNumber = 0


\* The events alerted by monitor m in its latest pass, in order.
TwinAlertedIds(m) ==
  LET infos == Infos(twin.monitors[m].logger)
  IN [k \in 1..Len(infos) |-> infos[k].ev]

\* C17: two monitors that differ only in monitoredLiquidators and
\* monitoredDisputers, run on the same fetch results, alert the same events in
\* the same order in every pass and have the same four watermarks.
C17_MonitoredSetsDoNotGateAlerts ==
  /\ TwinAlertedIds(1) = TwinAlertedIds(2)
  /\ twin.monitors[1].watermarks = twin.monitors[2].watermarks

\* A pass alerted two events in both monitors, one of which annotated them as
\* monitored and the other did not.
C17_Witness ==
  /\ Len(TwinAlertedIds(1)) = 2
  /\ TwinAlertedIds(1) = TwinAlertedIds(2)
  /\ twin.monitors[1].config # twin.monitors[2].config
  /\ \A k \in 1..2 :
       Infos(twin.monitors[1].logger)[k].monitored
         # Infos(twin.monitors[2].logger)[k].monitored
  /\ \E c \in Cats : twin.monitors[1].watermarks[c] > 0


\* C18: within a pass the watermark is read when the new events are selected
\* and written once, by the step that completes the pass, after the info alert
\* of the last selected event: while a pass is suspended its selection is the
\* one made from the watermark it began at and no watermark has moved; a pass
\* whose watermark differs from the one it began at has completed and has
\* alerted every event it selected; and no other step changes a watermark.
C18_WatermarkWrittenAfterLastAlert ==
  /\ [](pass.cat \in Cats =>
          /\ frame.pc # "idle" =>
               /\ pass.outcome = "running"
               /\ frame.new = newEvents(frame.latest, pass.before["Liquidation"])
               /\ Len(AlertedIds) = frame.i - 1
          /\ pass.outcome = "running" => Watermarks = pass.before
          /\ Watermarks # pass.before =>
               /\ pass.outcome = "completed"
               /\ Len(AlertedIds) = Cardinality(Above(pass.latest, pass.before[pass.cat])))
  /\ [][Watermarks' # Watermarks =>
          /\ pass'.outcome = "completed"
          /\ calls' = calls + 1 \/ pass.outcome = "running"
          /\ LET P == Above(pass'.latest, pass'.before[pass'.cat])
             IN /\ Len(Infos(logger')) = Cardinality(P)
                /\ \A k \in 1..Cardinality(P) :
                     Infos(logger')[k].ev = pass'.latest[Nth(P, k)].id]_vars

\* A liquidation pass suspended in its second iteration: the first event is
\* alerted, the second is not, and the watermark is still below both.
C18_Witness ==
  /\ pass.cat = "Liquidation"
  /\ pass.outcome = "running"
  /\ frame.pc = "collateralRequirement"
  /\ frame.i = 2
  /\ Len(AlertedIds) = 1
  /\ Watermarks = pass.before
  /\ \A k \in 1..2 : frame.new[k].blockNumber > lastLiquidationBlockNumber


\* C19: checkForNewLiquidations holds no lock and is not serialised by the
\* monitor. An invocation started while another is suspended at a contract
\* read, the watermark being what the suspended one began at, selects again
\* every event the suspended one selected that is in its list (the same
\* events when the lists are the same); and an invocation that ends assigns
\* the block number of its own list's last element, whatever the watermark
\* has become. A duplicate alert and a lowered watermark are then reachable
\* (C19_Witness).
C19_OverlappedInvocationsSelectTheSame ==
  /\ [][\A k, j \in Slots :
          (/\ j # k
           /\ Free(k) /\ ~Free(k)'
           /\ ~Free(j)
           /\ lastLiquidationBlockNumber = overlap.inv[j].lastSeen)
            => /\ \A n \in DOMAIN overlap.inv[j].new :
                    overlap.inv[j].new[n].id \in Ids(overlap'.inv[k].latest)
                      => overlap.inv[j].new[n].id \in Ids(overlap'.inv[k].new)
               /\ overlap'.inv[k].latest = overlap.inv[j].latest
                    => overlap'.inv[k].new = overlap.inv[j].new]_vars
  /\ [][\A k \in Slots :
          (~Free(k) /\ Free(k)')
            => lastLiquidationBlockNumber'
                 = getLastSeenBlockNumber(overlap.inv[k].latest)]_vars

\* Two overlapped invocations over an append-only history have both ended: an
\* event has been alerted twice, and the one that ended last has left the
\* watermark below the one the other had assigned.
C19_Witness ==
  /\ \A k \in Slots : Free(k)
  /\ AppendOnly("Liquidation")
  /\ hist["Liquidation"].aborts = {}
  /\ \E i \in EventIds : hist["Liquidation"].count[i] = 2
  /\ lastLiquidationBlockNumber < overlap.highest

\* The categories of the check methods that have no await.
SyncCats == {"NewSponsor", "Dispute", "DisputeSettlement"}

\* The step is an invocation of one of the three methods without an await.
SyncStep == calls' = calls + 1 /\ pass'.cat \in SyncCats

\* C20: checkForNewSponsors, checkForNewDisputeEvents and
\* checkForNewDisputeSettlementEvents run from fetch to watermark assignment
\* in one step. Whatever invocations of checkForNewLiquidations are suspended,
\* such a step begins at the watermarks as they are, alerts the events of its
\* list above its own watermark in list order, assigns its own watermark and
\* no other, and leaves the suspended invocations alone; and a step of an
\* overlapped checkForNewLiquidations changes neither the watermark nor the
\* alert history of the three categories. The alerts and watermarks of the
\* three are thus those of the invocations run one after the other in the
\* order of their steps.
C20_SyncPassesAreAtomic ==
  [][IF SyncStep
       THEN \A c \in SyncCats : c = pass'.cat =>
            LET P == Above(pass'.latest, Watermark(c))
            IN /\ pass'.before = Watermarks
               /\ overlap' = overlap
               /\ pass'.outcome \in {"completed", "aborted"}
               /\ \A d \in Cats \ {c} : Watermark(d)' = Watermark(d)
               /\ pass'.outcome = "completed" =>
                    /\ Watermark(c)' = getLastSeenBlockNumber(pass'.latest)
                    /\ Len(Infos(logger')) = Cardinality(P)
                    /\ \A k \in 1..Cardinality(P) :
                         Infos(logger')[k].ev = pass'.latest[Nth(P, k)].id
               /\ pass'.outcome = "aborted" => Watermark(c)' = Watermark(c)
       ELSE \A c \in SyncCats :
              Watermark(c)' = Watermark(c) /\ hist'[c] = hist[c]]_vars

\* A new-sponsor pass has alerted two events and set its watermark while an
\* invocation of checkForNewLiquidations is suspended between its two events.
C20_Witness ==
  /\ \E k \in Slots : overlap.inv[k].pc = "liquidations" /\ overlap.inv[k].i = 2
  /\ pass.cat = "NewSponsor"
  /\ pass.outcome = "completed"
  /\ Len(AlertedIds) = 2
  /\ lastNewSponsorBlockNumber > 0
  /\ lastLiquidationBlockNumber = 0

====
